---- MODULE Spec2Model ----
(***************************************************************************)
(* Tree Census QC service (Flakapp_Tree_Cencus.py): the /qc handler, the   *)
(* /species export and the /health query, with several /qc invocations in  *)
(* flight at once.                                                         *)
(*                                                                         *)
(* Numbers.  Python floats are modelled in fixed point: the integer v      *)
(* stands for the real v / ONE.  Products are rounded to the nearest unit, *)
(* round(x, 1) rounds to the nearest multiple of ONE / 10 (ties to even),  *)
(* and x ** b is computed by repeated multiplication for the integer part  *)
(* of b and a ladder of square roots for its fractional part.              *)
(*                                                                         *)
(* Images.  A file on disk is a directory, a file that is not an image, or *)
(* an image.  An image is represented by the sequence of external contours *)
(* that cvtColor, GaussianBlur, Canny and findContours extract from it,    *)
(* each contour by the two values the handler asks OpenCV about it: its    *)
(* contourArea and the radius of its minEnclosingCircle.                   *)
(***************************************************************************)
EXTENDS Integers, Sequences, FiniteSets, TLC

VARIABLES
    species_coeffs, \* the module-level species table
    disk,           \* the filesystem: existing path -> file
    pc,             \* per invocation: the statement of qc() it stands at
    payload,        \* per invocation: the JSON body of the request
    locals,         \* per frame: the local variables of qc()
    log,            \* per invocation: the library calls made so far, in order
    response,       \* per invocation: what qc() returned
    aux             \* the last answer of /species or /health

vars == <<species_coeffs, disk, pc, payload, locals, log, response, aux>>

----------------------------------------------------------------------------
(* Bounds of the model *)

NumRequests == 2      \* invocations of qc() that can be in flight at once
MaxContours == 2      \* contours in an image
MaxArea == 1          \* largest contourArea of a contour
MaxRadiusIdx == 2     \* radii are 0, RadiusStep, ..., MaxRadiusIdx * RadiusStep
RadiusStep == 5200    \* in 1/ONE pixel: 5.2 px

----------------------------------------------------------------------------
(* Fixed-point arithmetic standing for Python's float arithmetic *)

ONE == 1000

\* a * b, rounded to the nearest unit
Mul(a, b) == a * (b \div ONE) + (a * (b % ONE) + ONE \div 2) \div ONE

\* floor of the square root of n, by bisection on [lo, hi]
RECURSIVE ISqrtIn(_, _, _)
ISqrtIn(n, lo, hi) ==
    IF lo >= hi THEN lo
    ELSE LET mid == (lo + hi + 1) \div 2
         IN IF mid * mid <= n THEN ISqrtIn(n, mid, hi) ELSE ISqrtIn(n, lo, mid - 1)

ISqrt(n) == ISqrtIn(n, 0, 46340)

\* sqrt(x) in fixed point, rounded to the nearest unit
SqrtFix(x) ==
    LET s == ISqrt(x * ONE)
    IN IF x * ONE - s * s > s THEN s + 1 ELSE s

\* x ** n for a natural number n
RECURSIVE PowInt(_, _)
PowInt(x, n) == IF n = 0 THEN ONE ELSE Mul(x, PowInt(x, n - 1))

\* x ** (f / ONE) for 0 <= f < ONE, to k binary digits of the exponent
RECURSIVE PowFrac(_, _, _)
PowFrac(x, f, k) ==
    IF k = 0 \/ f = 0 THEN ONE
    ELSE LET s == SqrtFix(x)
         IN IF 2 * f >= ONE THEN Mul(s, PowFrac(s, 2 * f - ONE, k - 1))
                            ELSE PowFrac(s, 2 * f, k - 1)

\* x ** b for x >= 0 and b > 0 (Python: 0.0 ** b = 0.0)
Pow(x, b) ==
    IF x = 0 THEN 0
    ELSE Mul(PowInt(x, b \div ONE), PowFrac(x, b % ONE, 10))

\* round(v, 1) without the rounding: a slip that returns the raw value
RoundNot(v) == v

\* round(v, 1): to the nearest multiple of ONE / 10, ties to the even one
Round1(v) ==
    LET tenth == ONE \div 10
        q == v \div tenth
        rest == v % tenth
    IN IF 2 * rest > tenth \/ (2 * rest = tenth /\ q % 2 = 1)
       THEN (q + 1) * tenth
       ELSE q * tenth

PI == 3142                    \* math.pi
scale_cm_per_pixel == 100     \* 0.1 cm per pixel

----------------------------------------------------------------------------
(* The species table *)

\* species_coeffs as the module initialises it: a * DBH^b for height and canopy
InitialCoeffs ==
    [k \in {"Silver maple", "Ginkgo", "Oak", "Maple", "Pine", "Default"} |->
        CASE k = "Silver maple" -> [height |-> <<1500, 1778>>, canopy |-> <<820, 1995>>]
          [] k = "Ginkgo"       -> [height |-> <<1710, 1465>>, canopy |-> <<630, 1989>>]
          [] k = "Oak"          -> [height |-> <<1300, 1500>>, canopy |-> <<700, 1200>>]
          [] k = "Maple"        -> [height |-> <<1500, 1700>>, canopy |-> <<800, 2000>>]
          [] k = "Pine"         -> [height |-> <<800, 1250>>,  canopy |-> <<500, 1400>>]
          [] k = "Default"      -> [height |-> <<1000, 1200>>, canopy |-> <<500, 1500>>]]

\* the order in which the dict holds its keys
InsertionOrder == <<"Silver maple", "Ginkgo", "Oak", "Maple", "Pine", "Default">>

\* list(d.keys())
KeysList(d) == SelectSeq(InsertionOrder, LAMBDA k : k \in DOMAIN d)

\* d.setdefault(key, default) in place of d.get: the lookup stores what it misses
DictAfterSetdefault(d, key) ==
    [k \in DOMAIN d \cup {key} |-> IF k \in DOMAIN d THEN d[k] ELSE d["Default"]]

\* the dict after d.get(key, default): a lookup leaves it as it was
DictAfterGet(d, key) == d

\* a lookup that ignores the case of the first letter
DictGetIgnoreCase(d, key, default) ==
    LET cap == CASE key = "oak" -> "Oak" [] key = "pine" -> "Pine" [] OTHER -> key
    IN IF cap \in DOMAIN d THEN d[cap] ELSE default

\* d.get(key, default): the entry of exactly this key, or the default
DictGet(d, key, default) == IF key \in DOMAIN d THEN d[key] ELSE default

----------------------------------------------------------------------------
(* Requests *)

Requests == 1 .. NumRequests

None == "<None>"        \* Python's None (JSON null)
Absent == "<absent>"    \* a key the JSON object does not hold

JsonNull == [image_path |-> None, species |-> None, object |-> FALSE]

JsonObject(path, species) == [image_path |-> path, species |-> species, object |-> TRUE]

\* request.get_json() or {}
GetJsonOrEmpty(body) == IF body.object THEN body ELSE JsonObject(Absent, Absent)

\* data.get(key) and data.get(key, default) on the request's object
DataGet(v, default) == IF v = Absent THEN default ELSE v

\* image_path is None in place of not image_path: the empty string passes
FalsyNoneOnly(v) == v = None

\* not image_path: None and the empty string are falsy
Falsy(v) == v = None \/ v = ""

----------------------------------------------------------------------------
(* The filesystem and OpenCV *)

Radii == {k * RadiusStep : k \in 0 .. MaxRadiusIdx}

Contour == [area : 0 .. MaxArea, radius : Radii]

ContourSeqs == UNION {[1 .. n -> Contour] : n \in 0 .. MaxContours}

Directory == [kind |-> "dir", contours |-> <<>>]
NotAnImage == [kind |-> "bytes", contours |-> <<>>]
Image(cs) == [kind |-> "image", contours |-> cs]
NoImage == [kind |-> "none", contours |-> <<>>]

\* the files the requests can name
Catalogue ==
    [p \in {"/data", "/data/notes.txt", "/data/blank.png", "/data/trunk.jpg",
            "/data/stump.jpg"} |->
        CASE p = "/data"           -> Directory
          [] p = "/data/notes.txt" -> NotAnImage
          [] p = "/data/blank.png" -> Image(<<>>)
          [] p = "/data/trunk.jpg" ->
                Image(<<[area |-> 0, radius |-> 0],
                        [area |-> MaxArea, radius |-> 2 * RadiusStep]>>)
          [] p = "/data/stump.jpg" ->
                Image(<<[area |-> MaxArea, radius |-> RadiusStep]>>)]

\* os.path.exists reporting every path as existing
PathExistsAlways(d, path) == TRUE

\* os.path.exists(path)
PathExists(d, path) == path \in DOMAIN d

\* cv2.imread(path): the image, or None when the file is missing or not an image
Imread(d, path) ==
    IF path \in DOMAIN d /\ d[path].kind = "image" THEN d[path] ELSE NoImage

\* cvtColor, GaussianBlur, Canny and findContours: the external contours
FindContours(image) == image.contours

\* a test for contours that enclose something, in place of the test for any
NoneWithArea(contours) == \A i \in 1 .. Len(contours) : contours[i].area = 0

\* not contours: the sequence findContours returned is empty
NoContours(contours) == Len(contours) = 0

contourArea(c) == c.area

minEnclosingCircle(c) == c.radius

\* max(contours, key=contourArea) with >= : the last of the largest wins
RECURSIVE MaxLastFrom(_, _, _)
MaxLastFrom(cs, i, best) ==
    IF i > Len(cs) THEN best
    ELSE IF contourArea(cs[i]) >= contourArea(best)
         THEN MaxLastFrom(cs, i + 1, cs[i])
         ELSE MaxLastFrom(cs, i + 1, best)

\* max(contours, key=contourArea): a later contour replaces the best so far
\* only when its area is strictly larger
RECURSIVE MaxFrom(_, _, _)
MaxFrom(cs, i, best) ==
    IF i > Len(cs) THEN best
    ELSE IF contourArea(cs[i]) > contourArea(best)
         THEN MaxFrom(cs, i + 1, cs[i])
         ELSE MaxFrom(cs, i + 1, best)

MaxByAreaLast(cs) == MaxLastFrom(cs, 2, cs[1])

MaxByArea(cs) == MaxFrom(cs, 2, cs[1])

----------------------------------------------------------------------------
(* Responses *)

NoResponse == [status |-> 0, body |-> [pending |-> TRUE]]

\* an error answer that also carries what was measured so far
ErrorWithFields(msg) == [status |-> 400, body |-> [error |-> msg, dbh |-> 0]]

\* jsonify(error=msg), 400
ErrorResponse(msg) == [status |-> 400, body |-> [error |-> msg]]

\* jsonify({...}) of the four rounded values
SuccessResponse(dbh, girth, height, canopy) ==
    [status |-> 200,
     body |-> [dbh |-> Round1(dbh), girth |-> Round1(girth),
               height |-> Round1(height), canopy |-> Round1(canopy)]]

MissingInput == "No image_path provided"
NotFound(path) == "Image not found: " \o path
DecodeError == "Failed to load image"
NoTrunkDetected == "No trunk contour found in image"

----------------------------------------------------------------------------
(* State of an invocation *)

NoContour == [area |-> 0, radius |-> 0]
NoCoeffs == [height |-> <<0, 0>>, canopy |-> <<0, 0>>]

\* the locals of qc() before its first statement
NoLocals ==
    [image_path |-> None, species |-> None, image |-> NoImage, contours |-> <<>>,
     trunk_contour |-> NoContour, pixel_diameter |-> 0, dbh_cm |-> 0, girth_cm |-> 0,
     coeffs |-> NoCoeffs, height_m |-> 0, canopy_m |-> 0]

\* all invocations keeping their locals in one place (module globals)
SharedFrame(r) == 1

\* each call of qc() has a frame of its own for its local variables
Frame(r) == r

L(r) == locals[Frame(r)]

\* the requests clients send while several invocations are in flight
ConcurrentPayloads ==
    {JsonNull,
     JsonObject("/missing.jpg", "Oak"),
     JsonObject("/data/notes.txt", Absent),
     JsonObject("/data/blank.png", "Oak"),
     JsonObject("/data/trunk.jpg", "Oak"),
     JsonObject("/data/trunk.jpg", "Birch"),
     JsonObject("/data/stump.jpg", "Oak")}

\* the requests of a single invocation
EstimatePayloads ==
    {JsonNull}
    \cup {JsonObject(p, sp) :
            p \in {Absent, None, "", "/missing.jpg", "/data", "/data/notes.txt",
                   "/data/blank.png", "/data/trunk.jpg"},
            sp \in {Absent, None, "Oak", "oak", "Pine", "Birch", "Default"}}

Init ==
    /\ species_coeffs = InitialCoeffs
    /\ disk = Catalogue
    /\ pc = [r \in Requests |-> "idle"]
    /\ payload = [r \in Requests |-> JsonNull]
    /\ locals = [r \in Requests |-> NoLocals]
    /\ log = [r \in Requests |-> <<>>]
    /\ response = [r \in Requests |-> NoResponse]
    /\ aux = NoResponse

\* one invocation at a time, on an image with any contours within the bounds
InitEstimate ==
    /\ species_coeffs = InitialCoeffs
    /\ \E cs \in ContourSeqs : disk = [Catalogue EXCEPT !["/data/trunk.jpg"] = Image(cs)]
    /\ pc = [r \in Requests |-> "idle"]
    /\ payload = [r \in Requests |-> JsonNull]
    /\ locals = [r \in Requests |-> NoLocals]
    /\ log = [r \in Requests |-> <<>>]
    /\ response = [r \in Requests |-> NoResponse]
    /\ aux = NoResponse

----------------------------------------------------------------------------
(* POST /qc *)

\* a request arrives and qc() is called with it
Receive(r, bodies) ==
    /\ pc[r] = "idle"
    /\ \E body \in bodies : payload' = [payload EXCEPT ![r] = body]
    /\ pc' = [pc EXCEPT ![r] = "check_input"]
    /\ UNCHANGED <<species_coeffs, disk, locals, log, response, aux>>

\* return of qc(): the answer and the end of the invocation
Return(r, resp) ==
    /\ response' = [response EXCEPT ![r] = resp]
    /\ pc' = [pc EXCEPT ![r] = "done"]

\* data = request.get_json() or {}; image_path, species; if not image_path
CheckInput(r) ==
    /\ pc[r] = "check_input"
    /\ LET data == GetJsonOrEmpty(payload[r])
           image_path == DataGet(data.image_path, None)
           species == DataGet(data.species, "Default")
       IN /\ locals' = [locals EXCEPT ![Frame(r)] =
                           [NoLocals EXCEPT !.image_path = image_path,
                                            !.species = species]]
          /\ log' = [log EXCEPT ![r] = Append(@, "get_json")]
          /\ IF Falsy(image_path)
             THEN Return(r, ErrorResponse(MissingInput))
             ELSE /\ pc' = [pc EXCEPT ![r] = "check_exists"]
                  /\ UNCHANGED response
    /\ UNCHANGED <<species_coeffs, disk, payload, aux>>

\* if not os.path.exists(image_path)
CheckExists(r) ==
    /\ pc[r] = "check_exists"
    /\ log' = [log EXCEPT ![r] = Append(@, "exists")]
    /\ IF ~PathExists(disk, L(r).image_path)
       THEN Return(r, ErrorResponse(NotFound(L(r).image_path)))
       ELSE /\ pc' = [pc EXCEPT ![r] = "load_image"]
            /\ UNCHANGED response
    /\ UNCHANGED <<species_coeffs, disk, payload, locals, aux>>

\* image = cv2.imread(image_path); if image is None
LoadImage(r) ==
    /\ pc[r] = "load_image"
    /\ LET image == Imread(disk, L(r).image_path)
       IN /\ locals' = [locals EXCEPT ![Frame(r)].image = image]
          /\ log' = [log EXCEPT ![r] = Append(@, "imread")]
          /\ IF image = NoImage
             THEN Return(r, ErrorResponse(DecodeError))
             ELSE /\ pc' = [pc EXCEPT ![r] = "detect_contours"]
                  /\ UNCHANGED response
    /\ UNCHANGED <<species_coeffs, disk, payload, aux>>

\* gray, blurred, edges, contours; if not contours
DetectContours(r) ==
    /\ pc[r] = "detect_contours"
    /\ LET contours == FindContours(L(r).image)
       IN /\ locals' = [locals EXCEPT ![Frame(r)].contours = contours]
          /\ log' = [log EXCEPT ![r] =
                        @ \o <<"cvtColor", "GaussianBlur", "Canny", "findContours">>]
          /\ IF NoContours(contours)
             THEN Return(r, ErrorResponse(NoTrunkDetected))
             ELSE /\ pc' = [pc EXCEPT ![r] = "measure_trunk"]
                  /\ UNCHANGED response
    /\ UNCHANGED <<species_coeffs, disk, payload, aux>>

\* pi * dbh_cm computed as 2 * dbh_cm
GirthTwice(dbh_cm) == 2 * dbh_cm

\* girth_cm = math.pi * dbh_cm
Girth(dbh_cm) == Mul(PI, dbh_cm)

\* trunk_contour, radius, pixel_diameter, dbh_cm, girth_cm
MeasureTrunk(r) ==
    /\ pc[r] = "measure_trunk"
    /\ LET trunk_contour == MaxByArea(L(r).contours)
           radius == minEnclosingCircle(trunk_contour)
           pixel_diameter == 2 * radius
           dbh_cm == Mul(pixel_diameter, scale_cm_per_pixel)
           girth_cm == Girth(dbh_cm)
       IN locals' = [locals EXCEPT ![Frame(r)].trunk_contour = trunk_contour,
                                   ![Frame(r)].pixel_diameter = pixel_diameter,
                                   ![Frame(r)].dbh_cm = dbh_cm,
                                   ![Frame(r)].girth_cm = girth_cm]
    /\ log' = [log EXCEPT ![r] = @ \o <<"max", "minEnclosingCircle">>]
    /\ pc' = [pc EXCEPT ![r] = "allometry"]
    /\ UNCHANGED <<species_coeffs, disk, payload, response, aux>>

\* coeffs = species_coeffs.get(species, species_coeffs["Default"]); height_m, canopy_m
Allometry(r) ==
    /\ pc[r] = "allometry"
    /\ LET coeffs == DictGet(species_coeffs, L(r).species, species_coeffs["Default"])
           a_h == coeffs.height[1]
           b_h == coeffs.height[2]
           a_c == coeffs.canopy[1]
           b_c == coeffs.canopy[2]
       IN locals' = [locals EXCEPT ![Frame(r)].coeffs = coeffs,
                                   ![Frame(r)].height_m = Mul(a_h, Pow(L(r).dbh_cm, b_h)),
                                   ![Frame(r)].canopy_m = Mul(a_c, Pow(L(r).dbh_cm, b_c))]
    /\ species_coeffs' = DictAfterGet(species_coeffs, L(r).species)
    /\ pc' = [pc EXCEPT ![r] = "respond"]
    /\ UNCHANGED <<disk, payload, log, response, aux>>

\* return jsonify({...}) with the four rounded values
Respond(r) ==
    /\ pc[r] = "respond"
    /\ log' = [log EXCEPT ![r] = Append(@, "jsonify")]
    /\ Return(r, SuccessResponse(L(r).dbh_cm, L(r).girth_cm, L(r).height_m, L(r).canopy_m))
    /\ UNCHANGED <<species_coeffs, disk, payload, locals, aux>>

\* the answer is sent; the frame of the call is gone and the worker is free again
Deliver(r) ==
    /\ pc[r] = "done"
    /\ pc' = [pc EXCEPT ![r] = "idle"]
    /\ payload' = [payload EXCEPT ![r] = JsonNull]
    /\ locals' = [locals EXCEPT ![Frame(r)] = NoLocals]
    /\ log' = [log EXCEPT ![r] = <<>>]
    /\ response' = [response EXCEPT ![r] = NoResponse]
    /\ UNCHANGED <<species_coeffs, disk, aux>>

----------------------------------------------------------------------------
(* GET /species and GET /health *)

get_species ==
    /\ aux' = [status |-> 200,
               body |-> [species |-> KeysList(species_coeffs),
                         coefficients |-> species_coeffs]]
    /\ UNCHANGED <<species_coeffs, disk, pc, payload, locals, log, response>>

health ==
    /\ aux' = [status |-> 200,
               body |-> [status |-> "healthy", service |-> "Tree Census QC Tool"]]
    /\ UNCHANGED <<species_coeffs, disk, pc, payload, locals, log, response>>

----------------------------------------------------------------------------
(* Specifications *)

qc(r) ==
    \/ CheckInput(r)
    \/ CheckExists(r)
    \/ LoadImage(r)
    \/ DetectContours(r)
    \/ MeasureTrunk(r)
    \/ Allometry(r)
    \/ Respond(r)
    \/ Deliver(r)

\* several invocations in flight, their statements interleaved
Next ==
    \/ \E r \in Requests : Receive(r, ConcurrentPayloads) \/ qc(r)
    \/ get_species
    \/ health

Spec == Init /\ [][Next]_vars

\* one invocation at a time
NextEstimate ==
    \/ Receive(1, EstimatePayloads)
    \/ qc(1)
    \/ get_species
    \/ health

SpecEstimate == InitEstimate /\ [][NextEstimate]_vars

----------------------------------------------------------------------------
(* qc() run alone, from its first statement to its return *)

Estimate(d, body) ==
    LET data == GetJsonOrEmpty(body)
        image_path == DataGet(data.image_path, None)
        species == DataGet(data.species, "Default")
    IN IF Falsy(image_path) THEN ErrorResponse(MissingInput)
       ELSE IF ~PathExists(d, image_path) THEN ErrorResponse(NotFound(image_path))
       ELSE LET image == Imread(d, image_path)
            IN IF image = NoImage THEN ErrorResponse(DecodeError)
               ELSE LET contours == FindContours(image)
                    IN IF NoContours(contours) THEN ErrorResponse(NoTrunkDetected)
                       ELSE LET dbh_cm == Mul(2 * minEnclosingCircle(MaxByArea(contours)),
                                              scale_cm_per_pixel)
                                coeffs == DictGet(InitialCoeffs, species,
                                                  InitialCoeffs["Default"])
                            IN SuccessResponse(
                                   dbh_cm, Girth(dbh_cm),
                                   Mul(coeffs.height[1], Pow(dbh_cm, coeffs.height[2])),
                                   Mul(coeffs.canopy[1], Pow(dbh_cm, coeffs.canopy[2])))

----------------------------------------------------------------------------
(* What the claims speak about *)

\* the image path and the species a request carries, as the caller sent them
ReqPath(r) == IF payload[r].object /\ payload[r].image_path # Absent
              THEN payload[r].image_path ELSE None

ReqSpecies(r) == IF payload[r].object /\ payload[r].species # Absent
                 THEN payload[r].species ELSE "Default"

NoPath(r) == ReqPath(r) \in {None, ""}

Done(r) == pc[r] = "done"

MeasurementFields == {"dbh", "girth", "height", "canopy"}

IsSuccess(resp) == resp.status = 200 /\ DOMAIN resp.body = MeasurementFields

IsError(resp) == resp.status = 400 /\ DOMAIN resp.body = {"error"}

Failed(r, msg) == Done(r) /\ IsError(response[r]) /\ response[r].body.error = msg

Succeeded(r) == Done(r) /\ IsSuccess(response[r])

Called(r, f) == \E i \in 1 .. Len(log[r]) : log[r][i] = f

\* the calls that decode the image and everything qc() does after that
DecodeAndLater ==
    {"imread", "cvtColor", "GaussianBlur", "Canny", "findContours", "max",
     "minEnclosingCircle", "jsonify"}

\* the contours of the image a request names, when it names a decodable image
IsImage(r) == ~NoPath(r) /\ ReqPath(r) \in DOMAIN disk /\ disk[ReqPath(r)].kind = "image"

ImageContours(r) == disk[ReqPath(r)].contours

Tenth == ONE \div 10

Abs(x) == IF x < 0 THEN -x ELSE x

----------------------------------------------------------------------------
(* Claims *)

FullLog ==
    <<"get_json", "exists", "imread", "cvtColor", "GaussianBlur", "Canny",
      "findContours", "max", "minEnclosingCircle", "jsonify">>

\* C1: a request whose non-empty path names nothing on disk ends with the
\* NotFound error and without imread or any later call; and in every state
\* imread and every later call have been made only after the existence check
\* was made and passed.
C1_NotFoundBeforeDecode ==
    \A r \in Requests :
        /\ (\E f \in DecodeAndLater : Called(r, f))
              => /\ Len(log[r]) >= 2
                 /\ log[r][2] = "exists"
                 /\ \A i \in 1 .. 2 : log[r][i] \notin DecodeAndLater
                 /\ ReqPath(r) \in DOMAIN disk
        /\ (Done(r) /\ ~NoPath(r) /\ ReqPath(r) \notin DOMAIN disk)
              => /\ Failed(r, NotFound(ReqPath(r)))
                 /\ log[r] = <<"get_json", "exists">>

C1_Witness ==
    \E r \in Requests :
        /\ ReqPath(r) = "/missing.jpg"
        /\ Failed(r, NotFound("/missing.jpg"))

\* the result the four formulas give for a trunk diameter and a table entry
ResultWith(dbh_cm, c) ==
    [dbh |-> Round1(dbh_cm),
     girth |-> Round1(Mul(PI, dbh_cm)),
     height |-> Round1(Mul(c.height[1], Pow(dbh_cm, c.height[2]))),
     canopy |-> Round1(Mul(c.canopy[1], Pow(dbh_cm, c.canopy[2])))]

\* C2: a successful request whose species is not exactly a key of the table
\* (absent and null included) returns what the "Default" coefficients give for
\* the image; one whose species is a key returns what that key's own
\* coefficients give.
C2_CoefficientSelection ==
    \A r \in Requests :
        Succeeded(r) =>
            LET sp == ReqSpecies(r)
                own == IF sp \in DOMAIN InitialCoeffs THEN InitialCoeffs[sp]
                       ELSE InitialCoeffs["Default"]
            IN /\ L(r).coeffs = own
               /\ response[r].body = ResultWith(L(r).dbh_cm, own)

C2_Witness ==
    \E r \in Requests :
        /\ Succeeded(r)
        /\ ReqSpecies(r) = "oak"
        /\ L(r).dbh_cm > 0
        /\ response[r].body = ResultWith(L(r).dbh_cm, InitialCoeffs["Default"])
        /\ response[r].body # ResultWith(L(r).dbh_cm, InitialCoeffs["Oak"])

\* no call of the log is made twice
NoRepeat(calls) ==
    \A i, j \in 1 .. Len(calls) : calls[i] = calls[j] => i = j

\* C3: an invocation has no answer until it ends, and then it has exactly one
\* of two: the four measurement fields and no error, or an error and no
\* measurement field.  An error ends the invocation at the step that found it:
\* nothing after that step has run and no step has run twice.
C3_OneOutcome ==
    \A r \in Requests :
        /\ ~Done(r) => response[r] = NoResponse
        /\ Done(r) => (IsSuccess(response[r]) \/ IsError(response[r]))
        /\ Done(r) => ~(IsSuccess(response[r]) /\ IsError(response[r]))
        /\ NoRepeat(log[r])
        /\ Succeeded(r) => log[r] = FullLog
        /\ (Done(r) /\ IsError(response[r])) =>
              \E n \in {1, 2, 3, 7} :
                  /\ log[r] = SubSeq(FullLog, 1, n)
                  /\ response[r].body.error =
                        CASE n = 1 -> MissingInput
                          [] n = 2 -> NotFound(ReqPath(r))
                          [] n = 3 -> DecodeError
                          [] n = 7 -> NoTrunkDetected

C3_Witness ==
    \E r \in Requests : Failed(r, NoTrunkDetected) /\ Len(log[r]) = 7

\* C4 as claimed: the girth field is pi times the returned (rounded) dbh field,
\* rounded to one decimal.
C4_GirthOfReturnedDbh ==
    \A r \in Requests :
        Succeeded(r) =>
            response[r].body.girth = Round1(Mul(PI, response[r].body.dbh))

\* C4 as amended: the girth field is pi times the unrounded dbh_cm
\* (2 * radius * 0.1), rounded to one decimal.  It is pi times the returned
\* dbh field, rounded, whenever dbh_cm has at most one decimal digit, and is
\* never further than 0.21 from pi times the returned dbh field.
C4_GirthOfUnroundedDbh ==
    \A r \in Requests :
        Succeeded(r) =>
            LET dbh_cm == Mul(2 * L(r).trunk_contour.radius, scale_cm_per_pixel)
                body == response[r].body
            IN /\ body.girth = Round1(Mul(PI, dbh_cm))
               /\ dbh_cm % Tenth = 0 => body.girth = Round1(Mul(PI, body.dbh))
               /\ Abs(body.girth - Mul(PI, body.dbh)) <= 210

C4_Witness ==
    \E r \in Requests :
        /\ Succeeded(r)
        /\ L(r).dbh_cm % Tenth # 0
        /\ response[r].body.girth # Round1(Mul(PI, response[r].body.dbh))

\* C5: each of the four fields of a success result has at most one decimal
\* digit and is not negative.
C5_OneDecimalNonNegative ==
    \A r \in Requests :
        Succeeded(r) =>
            \A f \in MeasurementFields :
                /\ response[r].body[f] % Tenth = 0
                /\ response[r].body[f] >= 0

C5_Witness ==
    \E r \in Requests :
        /\ Succeeded(r)
        /\ L(r).dbh_cm % Tenth # 0
        /\ L(r).height_m % Tenth # 0
        /\ L(r).canopy_m % Tenth # 0

\* C6: the species table always holds exactly the entries it was initialised
\* with, "Default" among them.
C6_TableNeverModified ==
    /\ species_coeffs = InitialCoeffs
    /\ "Default" \in DOMAIN species_coeffs

C6_Witness ==
    /\ aux.status = 200
    /\ \E r1, r2 \in Requests :
          /\ Succeeded(r1) /\ ReqSpecies(r1) = "Birch"
          /\ Done(r2) /\ IsError(response[r2])

\* C7: whatever the interleaving, an invocation returns what qc() returns for
\* its own request when run alone.
C7_OutcomeOfOwnInputs ==
    \A r \in Requests : Done(r) => response[r] = Estimate(disk, payload[r])

C7_Witness ==
    \E r1, r2 \in Requests :
        /\ Succeeded(r1) /\ ReqPath(r1) = "/data/trunk.jpg"
        /\ pc[r2] = "respond" /\ ReqPath(r2) = "/data/stump.jpg"
        /\ L(r1).dbh_cm # L(r2).dbh_cm

\* C8: a request for an existing, decodable image fails with NoTrunkDetected
\* exactly when the image has no contour; with one contour or more it succeeds
\* with the four fields.
C8_NoTrunkIffNoContours ==
    \A r \in Requests :
        (Done(r) /\ IsImage(r)) =>
            /\ Failed(r, NoTrunkDetected) <=> Len(ImageContours(r)) = 0
            /\ Len(ImageContours(r)) > 0 => Succeeded(r)

C8_Witness ==
    \E r \in Requests :
        /\ IsImage(r)
        /\ Len(ImageContours(r)) > 0
        /\ \A i \in 1 .. Len(ImageContours(r)) : ImageContours(r)[i].area = 0
        /\ Succeeded(r)

\* C9: the error reported is that of the first failing check in the order
\* MissingInput, NotFound, DecodeError, NoTrunkDetected, whatever the species:
\* without a path nothing but the request is read, a file that does not decode
\* stops the invocation at imread, and a request that passes the four checks
\* succeeds.
C9_FirstFailingCheck ==
    \A r \in Requests :
        Done(r) =>
            IF NoPath(r)
            THEN Failed(r, MissingInput) /\ log[r] = <<"get_json">>
            ELSE IF ReqPath(r) \notin DOMAIN disk
            THEN Failed(r, NotFound(ReqPath(r)))
            ELSE IF disk[ReqPath(r)].kind # "image"
            THEN Failed(r, DecodeError) /\ log[r] = <<"get_json", "exists", "imread">>
            ELSE IF Len(ImageContours(r)) = 0
            THEN Failed(r, NoTrunkDetected)
            ELSE Succeeded(r)

C9_Witness ==
    \E r \in Requests :
        /\ ReqPath(r) = "/data/notes.txt"
        /\ ReqSpecies(r) = "Birch"
        /\ Failed(r, DecodeError)

\* C10: the contour measured is the first one of the image whose area no other
\* contour exceeds, and the dbh field is 2 * radius * 0.1 of its enclosing
\* circle, rounded.
C10_FirstLargestContour ==
    \A r \in Requests :
        pc[r] \in {"allometry", "respond", "done"} /\ Len(L(r).contours) > 0 =>
            LET cs == L(r).contours
                t == L(r).trunk_contour
            IN /\ cs = ImageContours(r)
               /\ \E i \in 1 .. Len(cs) :
                     /\ cs[i] = t
                     /\ \A j \in 1 .. Len(cs) : cs[j].area <= t.area
                     /\ \A j \in 1 .. i - 1 : cs[j].area < t.area
               /\ Succeeded(r) =>
                     response[r].body.dbh = Round1(Mul(2 * t.radius, scale_cm_per_pixel))

C10_Witness ==
    \E r \in Requests :
        /\ Succeeded(r)
        /\ Len(L(r).contours) = 2
        /\ L(r).contours[1].area = L(r).contours[2].area
        /\ L(r).contours[1].radius # L(r).contours[2].radius
        /\ L(r).trunk_contour = L(r).contours[1]

====
